---- MODULE Spec2Model ----
(***************************************************************************)
(* State-machine model of the multi-tenant backend: the organization       *)
(* registry, the membership ledger, the businesses and the registration    *)
(* (accounts/), and the business-platform connection ledger (integration/).*)
(***************************************************************************)
EXTENDS Integers, FiniteSets, Sequences, TLC

(***************************************************************************)
(* Bounds and input alphabets                                              *)
(***************************************************************************)
MaxMemberships == 3
MaxConns == 2
MaxTime == 1
MaxTokens == 3
MaxClock == 25
MaxBusinesses == 2
MaxIntegrations == 1

Users == {"u1", "u2", "u3"}
NoUser == "None"
Names == {"n1"}
Slugs == {"s1", "s2"}
NoValue == "absent"

OWNER == "OWNER"
ADMIN == "ADMIN"
MEMBER == "MEMBER"
Role == {OWNER, ADMIN, MEMBER}

\* Outcome of a request, as the HTTP layer reports it.
Created == "201 Created"
Ok == "200 OK"
NoContent == "204 No Content"
ValidationError == "400 Bad Request"
PermissionDenied == "403 Forbidden"
NotFound == "404 Not Found"
IntegrityError == "500 IntegrityError"

VARIABLES
    orgs,         \* sequence of Organization rows; the index is the primary key
    memberships,  \* set of OrganizationMembership rows
    nextMid,      \* next primary key of the membership table
    conns,        \* set of BusinessPlatform rows (the connection ledger)
    nextCid,      \* next primary key of the connection table
    now,          \* the clock, timezone.now()
    pc,           \* per worker: where its update_or_create call stands
    call,         \* per worker: the arguments of its call, once it has begun
    lastWriter,   \* the worker whose write to the ledger came last
    users,        \* set of CustomUser rows
    tokens,       \* set of EmailVerificationToken rows
    nextToken,    \* the next string secrets.token_urlsafe returns
    redeemed,     \* emails verified by a redeemed token (history)
    businesses,   \* set of Business rows
    nextBid,      \* next primary key of the business table
    integrations, \* set of Integration rows
    nextIid,      \* next primary key of the integration table
    sig           \* per worker: where its run of the post_save receiver stands

orgVars == <<orgs, memberships, nextMid>>
connVars == <<conns, nextCid, now>>
raceVars == <<pc, call, lastWriter, sig>>
authVars == <<users, tokens, nextToken, redeemed>>
bizVars == <<businesses, nextBid, integrations, nextIid>>
vars == <<orgVars, connVars, raceVars, authVars, bizVars>>

\* Slugs are unique, so no more organizations than slugs are ever stored.
OrgIds == 1..Cardinality(Slugs)
\* A primary key that no stored organization has.
NoOrg == Cardinality(Slugs) + 1

(***************************************************************************)
(* accounts/models.py                                                      *)
(***************************************************************************)
Organization(name, slug, owner) ==
    [name |-> name, slug |-> slug, owner |-> owner, is_active |-> TRUE]

OrganizationMembership(id, user, organization, role, invited_by) ==
    [id |-> id, user |-> user, organization |-> organization,
     role |-> role, invited_by |-> invited_by]

\* The pair left unchecked.
UniqueTogether_unchecked(ms, user, organization) == TRUE

\* unique_together = [['user', 'organization']]: no second row for the pair.
UniqueTogether(ms, user, organization) ==
    ~ \E m \in ms : m.user = user /\ m.organization = organization

\* Organization.members: the users joined through the membership table.
Members(ms, o) == {m.user : m \in {x \in ms : x.organization = o}}

\* The rows of the user in every organization.
MembershipsOf_any_organization(ms, user, o) == {m \in ms : m.user = user}

MembershipsOf(ms, user, o) ==
    {m \in ms : m.user = user /\ m.organization = o}

(***************************************************************************)
(* accounts/signals.py                                                     *)
(***************************************************************************)
\* The receiver with the defaults of get_or_create left out: the row takes the
\* model's default role.
create_owner_membership_without_defaults(ms, o, owner, created, mid) ==
    IF created /\ MembershipsOf(ms, owner, o) = {}
    THEN ms \cup {OrganizationMembership(mid, owner, o, MEMBER, NoUser)}
    ELSE ms

\* post_save receiver: get_or_create keyed by (user, organization).
create_owner_membership(ms, o, owner, created, mid) ==
    IF created /\ MembershipsOf(ms, owner, o) = {}
    THEN ms \cup {OrganizationMembership(mid, owner, o, OWNER, NoUser)}
    ELSE ms

(***************************************************************************)
(* accounts/permissions.py                                                 *)
(***************************************************************************)
\* The permission with the role filter left out: any member passes.
IsOrganizationAdmin_any_role(ms, user, o) ==
    \E m \in ms : m.user = user /\ m.organization = o

IsOrganizationAdmin(ms, user, o) ==
    \E m \in ms : /\ m.user = user
                  /\ m.organization = o
                  /\ m.role \in {OWNER, ADMIN}

(***************************************************************************)
(* accounts/viewsets.py: OrganizationViewSet.  A handler is an operator of  *)
(* the stored state and the request that yields the response status and    *)
(* the state it leaves; the action of the same request applies it.         *)
(***************************************************************************)
Response(status, os, ms, mid) ==
    [status |-> status, orgs |-> os, memberships |-> ms, nextMid |-> mid]

\* A response that leaves the stored state as it was.
Refuse(status) == Response(status, orgs, memberships, nextMid)

Apply(r) ==
    /\ r.nextMid <= MaxMemberships + 1
    /\ orgs' = r.orgs
    /\ memberships' = r.memberships
    /\ nextMid' = r.nextMid
    /\ UNCHANGED <<connVars, raceVars, authVars, bizVars>>

\* A queryset without the is_active filter.
get_queryset_with_inactive(caller) ==
    {o \in DOMAIN orgs : caller \in Members(memberships, o)}

\* get_queryset: active organizations the caller is a member of.
get_queryset(caller) ==
    {o \in DOMAIN orgs : orgs[o].is_active /\ caller \in Members(memberships, o)}

\* The guarded actions with remove_member left out.
AdminActions_without_remove_member ==
    {"update", "partial_update", "destroy", "add_member"}

\* get_permissions: the actions guarded by IsOrganizationAdmin.
AdminActions == {"update", "partial_update", "destroy", "add_member", "remove_member"}

\* get_object: queryset lookup (404), then the object permissions (403).
get_object(action, caller, o) ==
    IF o \notin get_queryset(caller) THEN NotFound
    ELSE IF action \in AdminActions /\ ~IsOrganizationAdmin(memberships, caller, o)
         THEN PermissionDenied
         ELSE Ok

\* OrganizationViewSet.create with OrganizationCreateSerializer (validate_slug,
\* owner = request.user), then the post_save signal of the new row.
create(caller, name, slug) ==
    IF \E o \in DOMAIN orgs : orgs[o].slug = slug
    THEN Refuse(ValidationError)
    ELSE LET o == Len(orgs) + 1
             ms == create_owner_membership(memberships, o, caller, TRUE, nextMid)
         IN Response(Created, Append(orgs, Organization(name, slug, caller)),
                     ms, nextMid + Cardinality(ms \ memberships))

\* The post-creation side effect run again for a stored organization.
retry_owner_membership(o) ==
    LET ms == create_owner_membership(memberships, o, orgs[o].owner, TRUE, nextMid)
    IN Response(Ok, orgs, ms, nextMid + Cardinality(ms \ memberships))

\* add_member with OrganizationMembershipSerializer.  The request body carries
\* user, organization and (optionally) role; save() overrides the body's
\* organization by the addressed one and sets invited_by to the caller.
\* An add_member that writes the role onto the row the pair already has.
add_member_update_or_create(caller, o, user, bodyOrg, role) ==
    LET found == get_object("add_member", caller, o)
        given == IF role = NoValue THEN MEMBER ELSE role
        row == OrganizationMembership(nextMid, user, o, given, caller)
    IN IF found # Ok THEN Refuse(found)
       ELSE IF bodyOrg \notin DOMAIN orgs
       THEN Refuse(ValidationError)
       ELSE IF ~UniqueTogether(memberships, user, o)
       THEN Response(Ok, orgs,
                     {IF m.user = user /\ m.organization = o
                      THEN [m EXCEPT !.role = given] ELSE m : m \in memberships},
                     nextMid)
       ELSE Response(Created, orgs, memberships \cup {row}, nextMid + 1)

add_member(caller, o, user, bodyOrg, role) ==
    LET found == get_object("add_member", caller, o)
        row == OrganizationMembership(nextMid, user, o,
                   IF role = NoValue THEN MEMBER ELSE role, caller)
    IN IF found # Ok THEN Refuse(found)
       ELSE IF \/ bodyOrg \notin DOMAIN orgs
               \/ ~UniqueTogether(memberships, user, bodyOrg)
       THEN Refuse(ValidationError)   \* serializer.is_valid(raise_exception=True)
       ELSE IF ~UniqueTogether(memberships, user, o)
       THEN Refuse(IntegrityError)    \* the insert meets the unique constraint
       ELSE Response(Created, orgs, memberships \cup {row}, nextMid + 1)

\* The guard comparing the id with the owner object: never equal.
IsOwnerId_compares_object(o, user_id) == FALSE

\* The guard of remove_member that protects the owner's row.
IsOwnerId(o, user_id) == user_id = orgs[o].owner

\* remove_member.
remove_member(caller, o, user_id) ==
    LET found == get_object("remove_member", caller, o)
        deleted == MembershipsOf(memberships, user_id, o)
    IN IF found # Ok THEN Refuse(found)
       ELSE IF user_id = NoValue \/ IsOwnerId(o, user_id)
       THEN Refuse(ValidationError)
       ELSE Response(IF deleted = {} THEN NotFound ELSE NoContent,
                     orgs, memberships \ deleted, nextMid)

\* update / partial_update with OrganizationDetailSerializer: name, slug and
\* is_active are writable, owner is read-only.  Saving an existing row runs
\* the signal with created=False.
update(caller, o, name, slug, is_active) ==
    LET found == get_object("update", caller, o)
    IN IF found # Ok THEN Refuse(found)
       ELSE IF \E x \in DOMAIN orgs : x # o /\ orgs[x].slug = slug
       THEN Refuse(ValidationError)
       ELSE Response(Ok,
                [orgs EXCEPT ![o] = [@ EXCEPT !.name = name, !.slug = slug,
                                              !.is_active = is_active]],
                create_owner_membership(memberships, o, orgs[o].owner, FALSE, nextMid),
                nextMid)

\* retrieve: the row of the queryset, read only.
retrieve(caller, o) ==
    LET found == get_object("retrieve", caller, o)
    IN IF found # Ok THEN Refuse(found)
       ELSE Response(Ok, orgs, memberships, nextMid)

\* A destroy that takes the memberships of the organization with it.
destroy_cascading(caller, o) ==
    LET found == get_object("destroy", caller, o)
    IN IF found # Ok THEN Refuse(found)
       ELSE Response(NoContent,
                [orgs EXCEPT ![o] = [@ EXCEPT !.is_active = FALSE]],
                {m \in memberships : m.organization # o},
                nextMid)

\* destroy with perform_destroy: the soft delete.
destroy(caller, o) ==
    LET found == get_object("destroy", caller, o)
    IN IF found # Ok THEN Refuse(found)
       ELSE Response(NoContent,
                [orgs EXCEPT ![o] = [@ EXCEPT !.is_active = FALSE]],
                create_owner_membership(memberships, o, orgs[o].owner, FALSE, nextMid),
                nextMid)

\* permission_classes = [IsAuthenticated]: the caller is a known user.
IsAuthenticated(caller) == caller \in Users

CreateOrganization(caller, name, slug) ==
    /\ IsAuthenticated(caller)
    /\ Apply(create(caller, name, slug))

RetryOwnerMembership(o) ==
    /\ o \in DOMAIN orgs
    /\ Apply(retry_owner_membership(o))

AddMember(caller, o, user, bodyOrg, role) ==
    /\ IsAuthenticated(caller)
    /\ Apply(add_member(caller, o, user, bodyOrg, role))

RemoveMember(caller, o, user_id) ==
    /\ IsAuthenticated(caller)
    /\ Apply(remove_member(caller, o, user_id))

UpdateOrganization(caller, o, name, slug, is_active) ==
    /\ IsAuthenticated(caller)
    /\ Apply(update(caller, o, name, slug, is_active))

DestroyOrganization(caller, o) ==
    /\ IsAuthenticated(caller)
    /\ Apply(destroy(caller, o))

RetrieveOrganization(caller, o) ==
    /\ IsAuthenticated(caller)
    /\ Apply(retrieve(caller, o))

InitOrg ==
    /\ orgs = <<>>
    /\ memberships = {}
    /\ nextMid = 1

NextOrg ==
    \/ \E caller \in Users, name \in Names, slug \in Slugs :
          CreateOrganization(caller, name, slug)
    \/ \E o \in OrgIds : RetryOwnerMembership(o)
    \/ \E caller \in Users, o \in OrgIds, user \in Users,
          bodyOrg \in OrgIds \cup {NoOrg}, role \in Role \cup {NoValue} :
          AddMember(caller, o, user, bodyOrg, role)
    \/ \E caller \in Users, o \in OrgIds, user_id \in Users \cup {NoValue} :
          RemoveMember(caller, o, user_id)
    \/ \E caller \in Users, o \in OrgIds, name \in Names, slug \in Slugs,
          is_active \in BOOLEAN :
          UpdateOrganization(caller, o, name, slug, is_active)
    \/ \E caller \in Users, o \in OrgIds : DestroyOrganization(caller, o)
    \/ \E caller \in Users, o \in OrgIds : RetrieveOrganization(caller, o)

(***************************************************************************)
(* integration/models.py                                                   *)
(***************************************************************************)
Businesses == {"b1", "b2"}
NoBusiness == "None"

Platforms == {"meta", "facebook", "facebook_page"}
NoPlatform == "None"

\* Platform.parent: facebook_page is a child of facebook, facebook of meta.
parent ==
    [p \in Platforms |->
        CASE p = "facebook_page" -> "facebook"
          [] p = "facebook" -> "meta"
          [] OTHER -> NoPlatform]

PLATFORM_TYPE == {"user", "page"}

\* The type the OAuth callback of a platform passes: a page connection for
\* facebook_page, a user connection otherwise.
type_of == [p \in Platforms |-> IF p = "facebook_page" THEN "page" ELSE "user"]

\* A nullable DateTimeField: NULL is the empty set, the time t is {t}.
Null == {}

\* A nullable CharField left NULL.
None == "None"

BusinessPlatform(id, business, platform, access_token, refresh_token, expire, platform_type) ==
    [id |-> id, business |-> business, platform |-> platform,
     access_token |-> access_token, refresh_token |-> refresh_token,
     expire_at |-> expire, is_active |-> TRUE, platform_type |-> platform_type,
     reconnection |-> FALSE, external_id |-> None, external_name |-> None]

\* The token responses of the OAuth callback: dictionaries in which
\* refresh_token and expires_in may be missing.
TokenResponses ==
    { [access_token |-> "a1", refresh_token |-> "r1", expires_in |-> 1],
      [access_token |-> "a2"],
      [access_token |-> "a2", expires_in |-> 0] }

(***************************************************************************)
(* integration/managers.py: BusinessPlatformManager.  Each method is an     *)
(* operator of the ledger (rows, next key, clock) and its arguments.        *)
(***************************************************************************)
\* Responses of the token endpoint that carry no access_token.
MalformedResponses == {[refresh_token |-> "r1", expires_in |-> 1]}

Returned == "returned"
KeyError == "KeyError"
MultipleObjectsReturned == "MultipleObjectsReturned"

Outcome(status, cs, cid, obj) ==
    [status |-> status, conns |-> cs, nextCid |-> cid, obj |-> obj]

\* response_data.get(key)
Get(response_data, key) ==
    IF key \in DOMAIN response_data THEN response_data[key] ELSE None

\* if expires_in: now + timedelta(seconds=expires_in) else None
expire_at_of(t, response_data) ==
    IF "expires_in" \in DOMAIN response_data /\ response_data["expires_in"] # 0
    THEN {t + response_data["expires_in"]}
    ELSE Null

\* The rows update_or_create looks up: keyed by business and platform.
Lookup(cs, business, platform) ==
    {c \in cs : c.business = business /\ c.platform = platform}

\* An upsert that inserts without looking up.
update_or_create_always_insert(cs, cid, business, platform, access_token, refresh_token, expire, platform_type) ==
    Outcome(Returned,
            cs \cup {BusinessPlatform(cid, business, platform, access_token,
                                      refresh_token, expire, platform_type)},
            cid + 1, {cid})

\* An upsert whose update also marks the row as connected again.
update_or_create_reactivating(cs, cid, business, platform, access_token, refresh_token, expire, platform_type) ==
    LET found == Lookup(cs, business, platform)
    IN IF found = {}
       THEN Outcome(Returned,
                    cs \cup {BusinessPlatform(cid, business, platform, access_token,
                                              refresh_token, expire, platform_type)},
                    cid + 1, {cid})
       ELSE Outcome(Returned,
                    {IF c \in found
                     THEN [c EXCEPT !.access_token = access_token,
                                    !.refresh_token = refresh_token,
                                    !.expire_at = expire,
                                    !.platform_type = platform_type,
                                    !.is_active = TRUE,
                                    !.reconnection = FALSE]
                     ELSE c : c \in cs},
                    cid, {c.id : c \in found})

\* QuerySet.update_or_create(business, platform, defaults)
update_or_create(cs, cid, business, platform, access_token, refresh_token, expire, platform_type) ==
    LET found == Lookup(cs, business, platform)
    IN IF Cardinality(found) > 1
       THEN Outcome(MultipleObjectsReturned, cs, cid, {})
       ELSE IF found = {}
       THEN Outcome(Returned,
                    cs \cup {BusinessPlatform(cid, business, platform, access_token,
                                              refresh_token, expire, platform_type)},
                    cid + 1, {cid})
       ELSE Outcome(Returned,
                    {IF c \in found
                     THEN [c EXCEPT !.access_token = access_token,
                                    !.refresh_token = refresh_token,
                                    !.expire_at = expire,
                                    !.platform_type = platform_type]
                     ELSE c : c \in cs},
                    cid, {c.id : c \in found})

\* The access token read with .get: a missing key yields None.
create_business_platform_with_get(cs, cid, t, business, platform, response_data, platform_type) ==
    update_or_create(cs, cid, business, platform, Get(response_data, "access_token"),
                     Get(response_data, "refresh_token"),
                     expire_at_of(t, response_data), platform_type)

create_business_platform(cs, cid, t, business, platform, response_data, platform_type) ==
    IF "access_token" \notin DOMAIN response_data
    THEN Outcome(KeyError, cs, cid, {})
    ELSE IF business # NoBusiness
    THEN update_or_create(cs, cid, business, platform,
                          response_data["access_token"],
                          Get(response_data, "refresh_token"),
                          expire_at_of(t, response_data), platform_type)
    ELSE \* self.create(...) without a business: the column is NOT NULL
         Outcome(IntegrityError, cs, cid, {})

update_business_platform(cs, cid, t, id, response_data) ==
    IF "access_token" \notin DOMAIN response_data
    THEN Outcome(KeyError, cs, cid, {})
    ELSE Outcome(Returned,
                 {IF c.id = id
                  THEN [c EXCEPT !.access_token = response_data["access_token"],
                                 !.refresh_token = Get(response_data, "refresh_token"),
                                 !.expire_at = expire_at_of(t, response_data)]
                  ELSE c : c \in cs},
                 cid, {id})

\* The cascade with the business filter left out.
CascadeTargets_any_business(cs, c) ==
    {d \in cs : d.platform = parent[c.platform] /\ d.is_active}

\* The cascade turned towards the child platforms.
CascadeTargets_to_children(cs, c) ==
    {d \in cs : /\ d.business = c.business
                /\ parent[d.platform] = c.platform
                /\ d.is_active}

\* The rows the cascade of deactivate_platform selects.
CascadeTargets(cs, c) ==
    {d \in cs : /\ d.business = c.business
                /\ d.platform = parent[c.platform]
                /\ d.is_active}

Deactivated(c) == [c EXCEPT !.reconnection = TRUE, !.is_active = FALSE]

deactivate_platform(cs, cid, id) ==
    IF ~ \E c \in cs : c.id = id
    THEN Outcome(Returned, cs, cid, {})       \* if not business_platform: return
    ELSE LET c == CHOOSE x \in cs : x.id = id
             saved == {IF x.id = id THEN Deactivated(x) ELSE x : x \in cs}
         IN IF parent[c.platform] = NoPlatform
            THEN Outcome(Returned, saved, cid, {id})
            ELSE Outcome(Returned,
                         {IF x \in CascadeTargets(saved, c) THEN Deactivated(x) ELSE x
                             : x \in saved},
                         cid, {id})

ConnIds == 1..MaxConns

Commit(r) ==
    /\ r.nextCid <= MaxConns + 1
    /\ conns' = r.conns
    /\ nextCid' = r.nextCid
    /\ UNCHANGED <<now, orgVars, raceVars, authVars, bizVars>>

UpsertConnection(business, platform, response_data, platform_type) ==
    /\ platform \in Platforms
    /\ Commit(create_business_platform(conns, nextCid, now, business, platform,
                                       response_data, platform_type))

UpdateConnection(id, response_data) ==
    /\ \E c \in conns : c.id = id
    /\ Commit(update_business_platform(conns, nextCid, now, id, response_data))

DeactivateConnection(id) ==
    /\ \E c \in conns : c.id = id
    /\ Commit(deactivate_platform(conns, nextCid, id))

Tick ==
    /\ now < MaxTime
    /\ now' = now + 1
    /\ UNCHANGED <<conns, nextCid, orgVars, raceVars, authVars, bizVars>>

InitConn ==
    /\ conns = {}
    /\ nextCid = 1
    /\ now = 0

NextConn ==
    \/ \E business \in Businesses \cup {NoBusiness}, platform \in Platforms,
          response_data \in TokenResponses \cup MalformedResponses :
          UpsertConnection(business, platform, response_data, type_of[platform])
    \/ \E id \in ConnIds, response_data \in TokenResponses \cup MalformedResponses :
          UpdateConnection(id, response_data)
    \/ \E id \in ConnIds : DeactivateConnection(id)
    \/ Tick

(***************************************************************************)
(* Concurrent calls of create_business_platform.  update_or_create runs     *)
(* select_for_update().get() and, when no row matches, an insert: a row     *)
(* that exists is locked until the update is saved (one step), a row that   *)
(* does not exist locks nothing, so the insert is a step of its own.  The   *)
(* table has no unique constraint on (business, platform).                  *)
(***************************************************************************)
Workers == {"w1", "w2"}

Call(business, platform, response_data, platform_type, expire) ==
    [business |-> business, platform |-> platform, response_data |-> response_data,
     platform_type |-> platform_type, expire |-> expire]

\* The lookup of update_or_create, with the update when one row matches.
GetForUpdate(w, business, platform, response_data, platform_type) ==
    /\ pc[w] = "idle"
    /\ call' = [call EXCEPT ![w] = {Call(business, platform, response_data,
                                         platform_type,
                                         expire_at_of(now, response_data))}]
    /\ IF Lookup(conns, business, platform) = {}
       THEN /\ pc' = [pc EXCEPT ![w] = "insert"]       \* DoesNotExist
            /\ UNCHANGED <<conns, nextCid, lastWriter>>
       ELSE LET r == create_business_platform(conns, nextCid, now, business,
                         platform, response_data, platform_type)
            IN /\ pc' = [pc EXCEPT ![w] = "done"]
               /\ conns' = r.conns
               /\ nextCid' = r.nextCid
               /\ lastWriter' = IF r.status = Returned THEN {w} ELSE lastWriter
    /\ UNCHANGED <<now, sig, orgVars, authVars, bizVars>>

\* The insert that follows a lookup that found no row.
InsertAfterMiss(w) ==
    /\ pc[w] = "insert"
    /\ nextCid <= MaxConns
    /\ \E c \in call[w] :
          conns' = conns \cup
             {BusinessPlatform(nextCid, c.business, c.platform,
                               c.response_data["access_token"],
                               Get(c.response_data, "refresh_token"),
                               c.expire, c.platform_type)}
    /\ nextCid' = nextCid + 1
    /\ pc' = [pc EXCEPT ![w] = "done"]
    /\ lastWriter' = {w}
    /\ UNCHANGED <<now, call, sig, orgVars, authVars, bizVars>>

InitRace ==
    /\ pc = [w \in Workers |-> "idle"]
    /\ call = [w \in Workers |-> {}]
    /\ lastWriter = {}

NextRace ==
    \/ \E w \in Workers, business \in Businesses, platform \in Platforms,
          response_data \in TokenResponses :
          GetForUpdate(w, business, platform, response_data, type_of[platform])
    \/ \E w \in Workers : InsertAfterMiss(w)
    \/ Tick

(***************************************************************************)
(* accounts/services.py, accounts/views.py: registration, e-mail           *)
(* verification and login.  A handler is an operator of the user table,    *)
(* the token table, the next token string, the clock and its arguments.    *)
(***************************************************************************)
Emails == {"a@x.com", "b@x.com"}
Passwords == {"p1", "p2"}
\* timedelta(hours=24); the clock of this part counts hours.
TOKEN_LIFETIME == 24

Unauthorized == "401 Unauthorized"
ServerError == "500 Internal Server Error"

RegistrationSuccessful == "Registration successful. Please check your email to verify your account."
PasswordsDontMatch == "Passwords don't match"
EmailAlreadyRegistered == "Email already registered"
FailedToSend == "Failed to send verification email"
InvalidToken == "Invalid token"
TokenHasExpired == "Token has expired"
EmailAlreadyVerified == "Email already verified"
EmailVerifiedSuccessfully == "Email verified successfully"
VerificationEmailSent == "Verification email sent"
IfEmailExists == "If email exists, verification link will be sent"
InvalidCredentials == "Invalid credentials"
AccountNotActivated == "Account not activated. Please verify your email."
EmailNotVerified == "Email not verified. Please check your email."
AccessAndRefresh == "access, refresh, user"
SMTPException == "SMTPException"

\* CustomUserManager.create_user: the new row, with the defaults of the model.
create_user(email, password) ==
    [email |-> email, password |-> password, is_active |-> FALSE, is_verified |-> FALSE]

EmailVerificationToken(user, token, created_at) ==
    [user |-> user, token |-> token, created_at |-> created_at]

\* The expiry test with >= in place of >.
is_expired_at_boundary(verification, t) ==
    t >= verification.created_at + TOKEN_LIFETIME

\* EmailVerificationToken.is_expired
is_expired(verification, t) ==
    t > verification.created_at + TOKEN_LIFETIME

AuthResponse(status, body, us, ts, nt) ==
    [status |-> status, body |-> body, users |-> us, tokens |-> ts, nextToken |-> nt]

UserByEmail(us, email) == {u \in us : u.email = email}

\* user.delete(): the row goes, and on_delete=CASCADE takes its tokens.
delete_user(us, ts, email) ==
    [users |-> {u \in us : u.email # email}, tokens |-> {v \in ts : v.user # email}]

\* EmailService.send_verification_email: the token row is written before the
\* mail is handed to the transport, which may raise.
send_verification_email(ts, nt, t, email, mailOk) ==
    [tokens |-> ts \cup {EmailVerificationToken(email, nt, t)},
     nextToken |-> nt + 1,
     raised |-> ~mailOk]

\* A redemption that sets is_verified only.
verify_token_without_activation(us, ts, nt, t, token) ==
    LET found == {v \in ts : v.token = token}
    IN IF found = {}
       THEN AuthResponse(ValidationError, InvalidToken, us, ts, nt)
       ELSE LET verification == CHOOSE v \in found : TRUE
                user == CHOOSE u \in us : u.email = verification.user
            IN IF is_expired(verification, t)
               THEN AuthResponse(ValidationError, TokenHasExpired, us, ts, nt)
               ELSE IF user.is_verified
               THEN AuthResponse(Ok, EmailAlreadyVerified, us, ts, nt)
               ELSE AuthResponse(Ok, EmailVerifiedSuccessfully,
                       (us \ {user}) \cup {[user EXCEPT !.is_verified = TRUE]},
                       ts \ {verification}, nt)

\* A redemption that deletes the token of an already verified user too.
verify_token_deletes_when_verified(us, ts, nt, t, token) ==
    LET found == {v \in ts : v.token = token}
    IN IF found = {}
       THEN AuthResponse(ValidationError, InvalidToken, us, ts, nt)
       ELSE LET verification == CHOOSE v \in found : TRUE
                user == CHOOSE u \in us : u.email = verification.user
            IN IF is_expired(verification, t)
               THEN AuthResponse(ValidationError, TokenHasExpired, us, ts, nt)
               ELSE IF user.is_verified
               THEN AuthResponse(Ok, EmailAlreadyVerified, us, ts \ {verification}, nt)
               ELSE AuthResponse(Ok, EmailVerifiedSuccessfully,
                       (us \ {user}) \cup {[user EXCEPT !.is_verified = TRUE, !.is_active = TRUE]},
                       ts \ {verification}, nt)

\* A redemption that keeps the used token.
verify_token_keeps_token(us, ts, nt, t, token) ==
    LET found == {v \in ts : v.token = token}
    IN IF found = {}
       THEN AuthResponse(ValidationError, InvalidToken, us, ts, nt)
       ELSE LET verification == CHOOSE v \in found : TRUE
                user == CHOOSE u \in us : u.email = verification.user
            IN IF is_expired(verification, t)
               THEN AuthResponse(ValidationError, TokenHasExpired, us, ts, nt)
               ELSE IF user.is_verified
               THEN AuthResponse(Ok, EmailAlreadyVerified, us, ts, nt)
               ELSE AuthResponse(Ok, EmailVerifiedSuccessfully,
                       (us \ {user}) \cup {[user EXCEPT !.is_verified = TRUE, !.is_active = TRUE]},
                       ts, nt)

\* EmailService.verify_token, answered by VerifyEmailView.get
verify_token(us, ts, nt, t, token) ==
    LET found == {v \in ts : v.token = token}
    IN IF found = {}
       THEN AuthResponse(ValidationError, InvalidToken, us, ts, nt)
       ELSE LET verification == CHOOSE v \in found : TRUE
                user == CHOOSE u \in us : u.email = verification.user
            IN IF is_expired(verification, t)
               THEN AuthResponse(ValidationError, TokenHasExpired, us, ts, nt)
               ELSE IF user.is_verified
               THEN AuthResponse(Ok, EmailAlreadyVerified, us, ts, nt)
               ELSE AuthResponse(Ok, EmailVerifiedSuccessfully,
                       (us \ {user}) \cup {[user EXCEPT !.is_verified = TRUE, !.is_active = TRUE]},
                       ts \ {verification}, nt)

\* A registration that keeps the user when the mail fails.
register_user_without_rollback(us, ts, nt, t, email, password, password2, mailOk) ==
    IF password # password2
    THEN AuthResponse(ValidationError, PasswordsDontMatch, us, ts, nt)
    ELSE IF UserByEmail(us, email) # {}
    THEN AuthResponse(ValidationError, EmailAlreadyRegistered, us, ts, nt)
    ELSE LET created == us \cup {create_user(email, password)}
             sent == send_verification_email(ts, nt, t, email, mailOk)
         IN IF sent.raised
            THEN AuthResponse(ValidationError, FailedToSend, created, sent.tokens, sent.nextToken)
            ELSE AuthResponse(Created, RegistrationSuccessful, created, sent.tokens, sent.nextToken)

\* AuthService.register_user, answered by RegisterView.post
register_user(us, ts, nt, t, email, password, password2, mailOk) ==
    IF password # password2
    THEN AuthResponse(ValidationError, PasswordsDontMatch, us, ts, nt)
    ELSE IF UserByEmail(us, email) # {}
    THEN AuthResponse(ValidationError, EmailAlreadyRegistered, us, ts, nt)
    ELSE LET created == us \cup {create_user(email, password)}
             sent == send_verification_email(ts, nt, t, email, mailOk)
             rolled == delete_user(created, sent.tokens, email)
         IN IF sent.raised
            THEN AuthResponse(ValidationError, FailedToSend, rolled.users, rolled.tokens, sent.nextToken)
            ELSE AuthResponse(Created, RegistrationSuccessful, created, sent.tokens, sent.nextToken)

\* ResendVerificationView.post
resend_verification(us, ts, nt, t, email, mailOk) ==
    IF UserByEmail(us, email) = {}
    THEN AuthResponse(Ok, IfEmailExists, us, ts, nt)
    ELSE LET user == CHOOSE u \in us : u.email = email
             sent == send_verification_email(ts, nt, t, email, mailOk)
         IN IF user.is_verified
            THEN AuthResponse(Ok, EmailAlreadyVerified, us, ts, nt)
            ELSE IF sent.raised
            THEN AuthResponse(ServerError, SMTPException, us, sent.tokens, sent.nextToken)
            ELSE AuthResponse(Ok, VerificationEmailSent, us, sent.tokens, sent.nextToken)

\* A login that does not look at is_active.
login_user_ignores_is_active(us, ts, nt, email, password) ==
    IF UserByEmail(us, email) = {}
    THEN AuthResponse(Unauthorized, InvalidCredentials, us, ts, nt)
    ELSE LET user == CHOOSE u \in us : u.email = email
         IN IF user.password # password
            THEN AuthResponse(Unauthorized, InvalidCredentials, us, ts, nt)
            ELSE AuthResponse(Ok, AccessAndRefresh, us, ts, nt)

\* AuthService.login_user, answered by LoginView.post
login_user(us, ts, nt, email, password) ==
    IF UserByEmail(us, email) = {}
    THEN AuthResponse(Unauthorized, InvalidCredentials, us, ts, nt)
    ELSE LET user == CHOOSE u \in us : u.email = email
         IN IF user.password # password
            THEN AuthResponse(Unauthorized, InvalidCredentials, us, ts, nt)
            ELSE IF ~user.is_active
            THEN AuthResponse(Unauthorized, AccountNotActivated, us, ts, nt)
            ELSE IF ~user.is_verified
            THEN AuthResponse(Unauthorized, EmailNotVerified, us, ts, nt)
            ELSE AuthResponse(Ok, AccessAndRefresh, us, ts, nt)

TokenStrings == 1..MaxTokens

Answer(r) ==
    /\ r.nextToken <= MaxTokens + 1
    /\ users' = r.users
    /\ tokens' = r.tokens
    /\ nextToken' = r.nextToken
    /\ UNCHANGED <<now, conns, nextCid, orgVars, raceVars, bizVars>>

Register(email, password, password2, mailOk) ==
    /\ email \in Emails
    /\ Answer(register_user(users, tokens, nextToken, now, email, password, password2, mailOk))
    /\ UNCHANGED redeemed

VerifyEmail(token) ==
    /\ token \in TokenStrings
    /\ LET r == verify_token(users, tokens, nextToken, now, token)
       IN /\ Answer(r)
          /\ redeemed' = IF r.body = EmailVerifiedSuccessfully
                         THEN redeemed \cup {v.user : v \in {x \in tokens : x.token = token}}
                         ELSE redeemed

ResendVerification(email, mailOk) ==
    /\ email \in Emails
    /\ Answer(resend_verification(users, tokens, nextToken, now, email, mailOk))
    /\ UNCHANGED redeemed

Login(email, password) ==
    /\ email \in Emails
    /\ Answer(login_user(users, tokens, nextToken, email, password))
    /\ UNCHANGED redeemed

\* Time passes up to the last valid hour of a token, or to the hour after it.
Advance ==
    /\ \E v \in tokens, d \in {TOKEN_LIFETIME, TOKEN_LIFETIME + 1} :
          /\ v.created_at + d > now
          /\ v.created_at + d <= MaxClock
          /\ now' = v.created_at + d
    /\ UNCHANGED <<conns, nextCid, orgVars, raceVars, authVars, bizVars>>

InitAuth ==
    /\ users = {}
    /\ tokens = {}
    /\ nextToken = 1
    /\ redeemed = {}

NextAuth ==
    \/ \E email \in Emails, password \in Passwords, password2 \in Passwords,
          mailOk \in BOOLEAN : Register(email, password, password2, mailOk)
    \/ \E token \in TokenStrings : VerifyEmail(token)
    \/ \E email \in Emails, mailOk \in BOOLEAN : ResendVerification(email, mailOk)
    \/ \E email \in Emails, password \in Passwords : Login(email, password)
    \/ Advance

(***************************************************************************)
(* accounts/: Business and Integration, BusinessViewSet.  The routes are    *)
(* organizations/<organization_id>/businesses/ (list, create) and           *)
(* organizations/<organization_id>/businesses/<id>/ (retrieve, update,      *)
(* partial_update, destroy).  No route leads to the integrations.           *)
(***************************************************************************)
Business(id, organization, name, slug) ==
    [id |-> id, organization |-> organization, name |-> name, slug |-> slug,
     is_active |-> TRUE]

Integration(id, business) == [id |-> id, business |-> business, is_active |-> TRUE]

\* The organization key missing from the body of an update.
AbsentOrg == 0

BusinessIds == 1..MaxBusinesses
\* A primary key that no stored business has.
NoBid == MaxBusinesses + 1

BusinessResponse(status, bs, bid, data) ==
    [status |-> status, businesses |-> bs, nextBid |-> bid, data |-> data]

\* A response that leaves the business table as it was.
BusinessRefuse(status) == BusinessResponse(status, businesses, nextBid, {})

Store(r) ==
    /\ r.nextBid <= MaxBusinesses + 1
    /\ businesses' = r.businesses
    /\ nextBid' = r.nextBid
    /\ UNCHANGED <<integrations, nextIid, orgVars, connVars, raceVars, authVars>>

\* IsBusinessOwner.has_object_permission: the caller is a member of the
\* organization of the business.
IsBusinessOwner(caller, b) == caller \in Members(memberships, b.organization)

\* BusinessViewSet.get_queryset: the active businesses of the addressed
\* organization, for a caller who is a member of it.
BusinessViewSet_get_queryset(caller, org_id) ==
    {b \in businesses : /\ b.organization = org_id
                        /\ caller \in Members(memberships, org_id)
                        /\ b.is_active}

\* A slug check that looks at the businesses of every organization.
validate_slug_any_organization(bs, organization, value) ==
    ~ \E b \in bs : b.slug = value

\* BusinessCreateSerializer.validate_slug: no business of the organization,
\* active or not, has the slug.
validate_slug(bs, organization, value) ==
    ~ \E b \in bs : b.organization = organization /\ b.slug = value

\* unique_together = [['organization', 'slug']] as the validator of
\* BusinessSerializer applies it on update: the instance itself is excluded.
BusinessUniqueTogether(bs, id, organization, slug) ==
    ~ \E b \in bs : b.id # id /\ b.organization = organization /\ b.slug = slug

\* A validate that accepts every organization.
BusinessSerializer_validate_skipped(caller, organization) == TRUE

\* BusinessSerializer.validate: the caller is a member of the organization
\* named in the body.
BusinessSerializer_validate(caller, organization) ==
    caller \in Members(memberships, organization)

\* BusinessViewSet.list
BusinessViewSet_list(caller, org_id) ==
    BusinessResponse(Ok, businesses, nextBid,
                     BusinessViewSet_get_queryset(caller, org_id))

\* A create that looks the organization up without the members filter.
BusinessViewSet_create_without_members_filter(caller, org_id, name, slug) ==
    IF ~ (org_id \in DOMAIN orgs /\ orgs[org_id].is_active)
    THEN BusinessRefuse(NotFound)
    ELSE IF slug = NoValue \/ ~validate_slug(businesses, org_id, slug)
    THEN BusinessRefuse(ValidationError)
    ELSE BusinessResponse(Created,
             businesses \cup {Business(nextBid, org_id, name, slug)},
             nextBid + 1, {Business(nextBid, org_id, name, slug)})

\* BusinessViewSet.create
BusinessViewSet_create(caller, org_id, name, slug) ==
    IF ~ (/\ org_id \in DOMAIN orgs
          /\ caller \in Members(memberships, org_id)
          /\ orgs[org_id].is_active)
    THEN BusinessRefuse(NotFound)
    ELSE IF slug = NoValue \/ ~validate_slug(businesses, org_id, slug)
    THEN BusinessRefuse(ValidationError)
    ELSE BusinessResponse(Created,
             businesses \cup {Business(nextBid, org_id, name, slug)},
             nextBid + 1, {Business(nextBid, org_id, name, slug)})

\* get_object of BusinessViewSet: queryset lookup by id (404), then
\* IsBusinessOwner on the row (403).
BusinessViewSet_get_object(caller, org_id, id) ==
    LET found == {b \in BusinessViewSet_get_queryset(caller, org_id) : b.id = id}
    IN IF found = {} THEN NotFound
       ELSE IF \E b \in found : ~IsBusinessOwner(caller, b) THEN PermissionDenied
       ELSE Ok

\* BusinessViewSet.retrieve
BusinessViewSet_retrieve(caller, org_id, id) ==
    LET found == BusinessViewSet_get_object(caller, org_id, id)
    IN IF found # Ok THEN BusinessRefuse(found)
       ELSE BusinessResponse(Ok, businesses, nextBid,
                             {b \in businesses : b.id = id})

\* BusinessViewSet.update / partial_update with BusinessSerializer:
\* organization, name, slug and is_active are writable.  A PUT without the
\* organization is refused; a PATCH without it passes the fields and fails
\* in validate, which reads the members of None.
BusinessViewSet_update(caller, org_id, id, partial, bodyOrg, name, slug, is_active) ==
    LET found == BusinessViewSet_get_object(caller, org_id, id)
        target == IF bodyOrg = AbsentOrg THEN org_id ELSE bodyOrg
    IN IF found # Ok THEN BusinessRefuse(found)
       ELSE IF bodyOrg = AbsentOrg /\ ~partial
       THEN BusinessRefuse(ValidationError)
       ELSE IF bodyOrg # AbsentOrg /\ bodyOrg \notin DOMAIN orgs
       THEN BusinessRefuse(ValidationError)
       ELSE IF ~BusinessUniqueTogether(businesses, id, target, slug)
       THEN BusinessRefuse(ValidationError)
       ELSE IF bodyOrg = AbsentOrg
       THEN BusinessRefuse(ServerError)
       ELSE IF ~BusinessSerializer_validate(caller, bodyOrg)
       THEN BusinessRefuse(ValidationError)
       ELSE LET saved == {IF b.id = id
                          THEN [b EXCEPT !.organization = bodyOrg, !.name = name,
                                         !.slug = slug, !.is_active = is_active]
                          ELSE b : b \in businesses}
            IN BusinessResponse(Ok, saved, nextBid, {b \in saved : b.id = id})

\* A destroy that deletes the row.
perform_destroy_deleting(bs, id) == {b \in bs : b.id # id}

\* perform_destroy: the soft delete of the row.
perform_destroy(bs, id) ==
    {IF b.id = id THEN [b EXCEPT !.is_active = FALSE] ELSE b : b \in bs}

\* BusinessViewSet.destroy
BusinessViewSet_destroy(caller, org_id, id) ==
    LET found == BusinessViewSet_get_object(caller, org_id, id)
    IN IF found # Ok THEN BusinessRefuse(found)
       ELSE BusinessResponse(NoContent, perform_destroy(businesses, id), nextBid, {})

ListBusinesses(caller, org_id) ==
    /\ IsAuthenticated(caller)
    /\ Store(BusinessViewSet_list(caller, org_id))

CreateBusiness(caller, org_id, name, slug) ==
    /\ IsAuthenticated(caller)
    /\ Store(BusinessViewSet_create(caller, org_id, name, slug))

RetrieveBusiness(caller, org_id, id) ==
    /\ IsAuthenticated(caller)
    /\ Store(BusinessViewSet_retrieve(caller, org_id, id))

UpdateBusiness(caller, org_id, id, partial, bodyOrg, name, slug, is_active) ==
    /\ IsAuthenticated(caller)
    /\ Store(BusinessViewSet_update(caller, org_id, id, partial, bodyOrg, name,
                                    slug, is_active))

DestroyBusiness(caller, org_id, id) ==
    /\ IsAuthenticated(caller)
    /\ Store(BusinessViewSet_destroy(caller, org_id, id))

\* The restore of the maintenance script: business.is_active = True; save().
RestoreBusiness(id) ==
    /\ \E b \in businesses : b.id = id /\ ~b.is_active
    /\ businesses' = {IF b.id = id THEN [b EXCEPT !.is_active = TRUE] ELSE b :
                         b \in businesses}
    /\ UNCHANGED <<nextBid, integrations, nextIid, orgVars, connVars, raceVars,
                   authVars>>

\* Integration.objects.create(business=business, ...) of the script.
CreateIntegration(business) ==
    /\ \E b \in businesses : b.id = business
    /\ nextIid <= MaxIntegrations
    /\ integrations' = integrations \cup {Integration(nextIid, business)}
    /\ nextIid' = nextIid + 1
    /\ UNCHANGED <<businesses, nextBid, orgVars, connVars, raceVars, authVars>>

InitBiz ==
    /\ businesses = {}
    /\ nextBid = 1
    /\ integrations = {}
    /\ nextIid = 1

\* The tenants the business requests are explored with; each registers one
\* organization, under a slug of its own.
Tenants == {"u1", "u2"}
TenantSlug == [u \in Tenants |-> IF u = "u1" THEN "s1" ELSE "s2"]

NextBiz ==
    \/ \E caller \in Tenants, name \in Names :
          CreateOrganization(caller, name, TenantSlug[caller])
    \/ \E caller \in Tenants, o \in OrgIds, user \in Tenants, role \in {ADMIN, MEMBER} :
          AddMember(caller, o, user, o, role)
    \/ \E caller \in Tenants, o \in OrgIds : DestroyOrganization(caller, o)
    \/ \E caller \in Tenants, org_id \in OrgIds \cup {NoOrg} :
          ListBusinesses(caller, org_id)
    \/ \E caller \in Tenants, org_id \in OrgIds \cup {NoOrg}, name \in Names,
          slug \in Slugs \cup {NoValue} :
          CreateBusiness(caller, org_id, name, slug)
    \/ \E caller \in Tenants, org_id \in OrgIds, id \in BusinessIds \cup {NoBid} :
          RetrieveBusiness(caller, org_id, id)
    \/ \E caller \in Tenants, org_id \in OrgIds, id \in BusinessIds,
          bodyOrg \in OrgIds, name \in Names, slug \in Slugs,
          is_active \in BOOLEAN :
          UpdateBusiness(caller, org_id, id, FALSE, bodyOrg, name, slug, is_active)
    \/ \E caller \in Tenants, org_id \in OrgIds, id \in BusinessIds,
          name \in Names, slug \in Slugs :
          UpdateBusiness(caller, org_id, id, TRUE, AbsentOrg, name, slug, FALSE)
    \/ \E caller \in Tenants, org_id \in OrgIds, id \in BusinessIds :
          DestroyBusiness(caller, org_id, id)
    \/ \E id \in BusinessIds : RestoreBusiness(id)

(***************************************************************************)
(* Concurrent runs of the post_save receiver for one organization.         *)
(* get_or_create is a get and, when no row matches, a create inside a       *)
(* savepoint; the create meets the unique constraint on (user,              *)
(* organization), and its IntegrityError is caught and answered by a        *)
(* second get.                                                              *)
(***************************************************************************)
Run(at, o) == [pc |-> at, org |-> o]
Idle == Run("idle", 0)

\* get_or_create: self.get(user=instance.owner, organization=instance)
get_or_create_get(ms, user, o) == MembershipsOf(ms, user, o)

\* A create that the table accepts whatever it holds.
get_or_create_create_unconstrained(ms, user, o, mid) ==
    ms \cup {OrganizationMembership(mid, user, o, OWNER, NoUser)}

\* get_or_create: self.create(**params) under the unique constraint; a
\* violation leaves the table as it is.
get_or_create_create(ms, user, o, mid) ==
    IF UniqueTogether(ms, user, o)
    THEN ms \cup {OrganizationMembership(mid, user, o, OWNER, NoUser)}
    ELSE ms

\* Organization.save() of a new row; the receiver of the worker begins.
InsertOrganization(w, caller, name, slug) ==
    /\ sig[w] = Idle
    /\ Len(orgs) < Cardinality(Slugs)
    /\ ~ \E o \in DOMAIN orgs : orgs[o].slug = slug
    /\ orgs' = Append(orgs, Organization(name, slug, caller))
    /\ sig' = [sig EXCEPT ![w] = Run("get", Len(orgs) + 1)]
    /\ UNCHANGED <<memberships, nextMid, pc, call, lastWriter, connVars, authVars,
                   bizVars>>

\* The receiver runs once more for a stored organization, with created=True.
SignalRetry(w, o) ==
    /\ sig[w] = Idle
    /\ o \in DOMAIN orgs
    /\ sig' = [sig EXCEPT ![w] = Run("get", o)]
    /\ UNCHANGED <<orgVars, pc, call, lastWriter, connVars, authVars, bizVars>>

SignalGet(w) ==
    /\ sig[w].pc = "get"
    /\ LET o == sig[w].org
       IN sig' = [sig EXCEPT ![w] =
                     Run(IF get_or_create_get(memberships, orgs[o].owner, o) = {}
                         THEN "create" ELSE "fetched", o)]
    /\ UNCHANGED <<orgVars, pc, call, lastWriter, connVars, authVars, bizVars>>

SignalCreate(w) ==
    /\ sig[w].pc = "create"
    /\ nextMid <= MaxMemberships
    /\ LET o == sig[w].org
           ms == get_or_create_create(memberships, orgs[o].owner, o, nextMid)
       IN /\ memberships' = ms
          /\ nextMid' = IF ms = memberships THEN nextMid ELSE nextMid + 1
          /\ sig' = [sig EXCEPT ![w] =
                        Run(IF ms = memberships THEN "refetched" ELSE "created", o)]
    /\ UNCHANGED <<orgs, pc, call, lastWriter, connVars, authVars, bizVars>>

SignalReturn(w) ==
    /\ sig[w].pc \in {"fetched", "created", "refetched"}
    /\ sig' = [sig EXCEPT ![w] = Idle]
    /\ UNCHANGED <<orgVars, pc, call, lastWriter, connVars, authVars, bizVars>>

InitSignal == sig = [w \in Workers |-> Idle]

NextSignal ==
    \/ \E w \in Workers, caller \in Users, name \in Names, slug \in Slugs :
          InsertOrganization(w, caller, name, slug)
    \/ \E w \in Workers, o \in OrgIds : SignalRetry(w, o)
    \/ \E w \in Workers : SignalGet(w)
    \/ \E w \in Workers : SignalCreate(w)
    \/ \E w \in Workers : SignalReturn(w)

\* The organization, its businesses, their integrations and connections:
\* each tenant registers an organization, fills it with businesses,
\* integrations and a connection, and deactivates and restores.
NextTree ==
    \/ \E caller \in Tenants, name \in Names :
          CreateOrganization(caller, name, TenantSlug[caller])
    \/ \E caller \in Tenants, o \in OrgIds : DestroyOrganization(caller, o)
    \/ \E caller \in Tenants, org_id \in OrgIds : ListBusinesses(caller, org_id)
    \/ \E caller \in Tenants, org_id \in OrgIds, name \in Names, slug \in Slugs :
          CreateBusiness(caller, org_id, name, slug)
    \/ \E caller \in Tenants, org_id \in OrgIds, id \in BusinessIds :
          DestroyBusiness(caller, org_id, id)
    \/ \E id \in BusinessIds : RestoreBusiness(id)
    \/ \E business \in BusinessIds : CreateIntegration(business)
    \/ \E response_data \in {[access_token |-> "a2"]} :
          UpsertConnection("b1", "meta", response_data, type_of["meta"])

Init == InitOrg /\ InitConn /\ InitRace /\ InitAuth /\ InitBiz /\ InitSignal

SpecAuth == Init /\ [][NextAuth]_vars

SpecRace == Init /\ [][NextRace]_vars

SpecOrg == Init /\ [][NextOrg]_vars

SpecConn == Init /\ [][NextConn]_vars

SpecBiz == Init /\ [][NextBiz]_vars

SpecTree == Init /\ [][NextTree]_vars

SpecSignal == Init /\ [][NextSignal]_vars

(***************************************************************************)
(* Properties of the organization registry and the membership ledger       *)
(***************************************************************************)
\* The role the user holds in the organization, NoValue when not a member.
RoleOf(ms, user, o) ==
    IF MembershipsOf(ms, user, o) = {} THEN NoValue
    ELSE (CHOOSE m \in MembershipsOf(ms, user, o) : TRUE).role

ExactlyOneOwnerRow(ms, o, owner) ==
    /\ Cardinality(MembershipsOf(ms, owner, o)) = 1
    /\ \A m \in MembershipsOf(ms, owner, o) : m.role = OWNER /\ m.invited_by = NoUser

\* C1: creating an organization yields exactly one membership row for
\* (owner, organization), with role OWNER and no inviter, never zero rows; and
\* running the post-creation side effect again, right after the creation or
\* in any later state, adds no second row.
C1_OwnerMembershipOnCreate ==
    /\ \A caller \in Users, name \in Names, slug \in Slugs :
          LET r == create(caller, name, slug)
              o == Len(r.orgs)
          IN r.status = Created =>
                /\ ExactlyOneOwnerRow(r.memberships, o, caller)
                /\ create_owner_membership(r.memberships, o, caller, TRUE, r.nextMid)
                      = r.memberships
    /\ \A o \in DOMAIN orgs :
          /\ ExactlyOneOwnerRow(memberships, o, orgs[o].owner)
          /\ retry_owner_membership(o).memberships = memberships

\* Two organizations have been created and each has its single owner row.
C1_Witness ==
    /\ Len(orgs) = 2
    /\ \A o \in DOMAIN orgs : ExactlyOneOwnerRow(memberships, o, orgs[o].owner)

\* C2: in every reachable state each organization's owner holds a membership
\* in that organization, and every membership of an owner in their own
\* organization has role OWNER.
C2_OwnerAlwaysOwner ==
    /\ \A o \in DOMAIN orgs :
          \E m \in memberships :
             m.user = orgs[o].owner /\ m.organization = o /\ m.role = OWNER
    /\ \A m \in memberships :
          m.user = orgs[m.organization].owner => m.role = OWNER

\* A member was added and removed again, an organization was deactivated, and
\* the owners still hold their OWNER rows.
C2_Witness ==
    /\ nextMid - 1 > Cardinality(memberships)
    /\ \E o \in DOMAIN orgs : ~orgs[o].is_active
    /\ \E o \in DOMAIN orgs : Cardinality(Members(memberships, o)) > 1
    /\ C2_OwnerAlwaysOwner

OwnerRowKept(r, o) ==
    \E m \in r.memberships : m.user = orgs[o].owner /\ m.organization = o

\* C3 as claimed: removing the owner fails with ValidationError whatever role
\* the caller holds in the organization, and the owner's row stays.
C3_OwnerRemovalAlwaysValidationError ==
    \A o \in DOMAIN orgs, caller \in Users :
       RoleOf(memberships, caller, o) \in Role =>
          LET r == remove_member(caller, o, orgs[o].owner)
          IN r.status = ValidationError /\ OwnerRowKept(r, o)

\* C3 as amended: removing the owner always fails and keeps the owner's row;
\* the failure is ValidationError for a caller with role OWNER or ADMIN in an
\* active organization, PermissionDenied for a caller with role MEMBER, and
\* NotFound when the organization is deactivated.
C3_OwnerRemovalRefused ==
    \A o \in DOMAIN orgs, caller \in Users :
       RoleOf(memberships, caller, o) \in Role =>
          LET r == remove_member(caller, o, orgs[o].owner)
          IN /\ r.memberships = memberships
             /\ OwnerRowKept(r, o)
             /\ r.status = IF ~orgs[o].is_active THEN NotFound
                           ELSE IF RoleOf(memberships, caller, o) = MEMBER
                                THEN PermissionDenied
                                ELSE ValidationError

\* One active organization has an ADMIN and a MEMBER beside its owner; each
\* of the three asks to remove the owner.
C3_Witness ==
    \E o \in DOMAIN orgs, a \in Users, b \in Users :
       /\ orgs[o].is_active
       /\ RoleOf(memberships, a, o) = ADMIN
       /\ RoleOf(memberships, b, o) = MEMBER
       /\ remove_member(a, o, orgs[o].owner).status = ValidationError
       /\ remove_member(b, o, orgs[o].owner).status = PermissionDenied
       /\ remove_member(orgs[o].owner, o, orgs[o].owner).status = ValidationError

RefusedUnchanged(r) ==
    /\ r.status \in {PermissionDenied, NotFound}
    /\ r.orgs = orgs
    /\ r.memberships = memberships

\* C4: every add_member, remove_member, update or destroy addressed to an
\* organization by a caller who is no member of it, or whose role in it is
\* MEMBER, is refused and leaves the organizations and memberships unchanged.
C4_WritesNeedOwnerOrAdmin ==
    \A caller \in Users, o \in OrgIds :
       RoleOf(memberships, caller, o) \notin {OWNER, ADMIN} =>
          /\ \A user \in Users, bodyOrg \in OrgIds \cup {NoOrg}, role \in Role \cup {NoValue} :
                RefusedUnchanged(add_member(caller, o, user, bodyOrg, role))
          /\ \A user_id \in Users \cup {NoValue} :
                RefusedUnchanged(remove_member(caller, o, user_id))
          /\ \A name \in Names, slug \in Slugs, is_active \in BOOLEAN :
                RefusedUnchanged(update(caller, o, name, slug, is_active))
          /\ RefusedUnchanged(destroy(caller, o))

\* An active organization has a MEMBER, who is refused with 403, and a user
\* outside it, who is refused with 404.
C4_Witness ==
    \E o \in DOMAIN orgs, b \in Users, c \in Users :
       /\ orgs[o].is_active
       /\ RoleOf(memberships, b, o) = MEMBER
       /\ RoleOf(memberships, c, o) = NoValue
       /\ add_member(b, o, c, o, ADMIN).status = PermissionDenied
       /\ destroy(c, o).status = NotFound

(***************************************************************************)
(* Claims about the connection ledger.                                      *)
(***************************************************************************)
Ids(cs) == {c.id : c \in cs}
RowsOfPair(cs, business, platform) ==
    {c \in cs : c.business = business /\ c.platform = platform}
Flagged(c) == [c EXCEPT !.is_active = FALSE, !.reconnection = TRUE]

\* C5: deactivate_platform(c) sets is_active false and reconnection true on
\* c; when c's platform has a parent it sets the same flags on every active
\* connection of c's business on that parent platform; every other row (of
\* another business, on the grandparent, on an unrelated platform, or on the
\* parent when c's platform has none) is unchanged, and no row is added.
C5_DeactivateTouchesOnlyParent ==
    \A c \in conns :
       LET r == deactivate_platform(conns, nextCid, c.id)
       IN /\ r.status = Returned
          /\ r.nextCid = nextCid
          /\ r.conns =
               {IF d.id = c.id
                THEN Flagged(d)
                ELSE IF /\ parent[c.platform] # NoPlatform
                        /\ d.business = c.business
                        /\ d.platform = parent[c.platform]
                        /\ d.is_active
                THEN Flagged(d)
                ELSE d : d \in conns}

\* A business's connection on a child platform and its connection on the
\* parent platform both stand deactivated and marked for reconnection.
C5_Witness ==
    \E c \in conns, d \in conns :
       /\ d.business = c.business
       /\ parent[c.platform] = d.platform
       /\ ~c.is_active /\ c.reconnection
       /\ ~d.is_active /\ d.reconnection

\* C6 as stated: no connection on a child platform is active while the same
\* business's connection on the parent platform is deactivated.
C6_ChildNeverOutlivesParent ==
    \A c \in conns, d \in conns :
       (/\ d.business = c.business
        /\ parent[d.platform] = c.platform
        /\ ~c.is_active) => ~d.is_active

\* C6: the cascade runs from the child to the parent only.  Deactivating a
\* connection leaves no active connection of its business on the parent
\* platform, and leaves that business's connections on child platforms as
\* they were.
C6_ParentNeverOutlivesChild ==
    \A c \in conns :
       LET r == deactivate_platform(conns, nextCid, c.id)
       IN /\ \A x \in r.conns :
                (x.business = c.business /\ x.platform = parent[c.platform])
                   => ~x.is_active
          /\ \A d \in conns :
                (d.business = c.business /\ parent[d.platform] = c.platform)
                   => d \in r.conns

\* A business holds an active connection on a child platform beside a
\* deactivated connection on the parent platform, and deactivating the
\* child's connection leaves the parent's deactivated.
C6_Witness ==
    \E c \in conns, d \in conns :
       /\ d.business = c.business
       /\ parent[d.platform] = c.platform
       /\ ~c.is_active
       /\ d.is_active
       /\ \A x \in deactivate_platform(conns, nextCid, d.id).conns : ~x.is_active

\* C7: two create_business_platform calls in sequence for one (business,
\* platform) with different responses leave exactly one row for the pair; the
\* second call returns the row the first returned, and the row holds the
\* access token, refresh token and expiry taken from the second response.
C7_SecondUpsertOverwrites ==
    \A business \in Businesses, platform \in Platforms, d1 \in TokenResponses :
       LET r1 == create_business_platform(conns, nextCid, now, business,
                                          platform, d1, type_of[platform])
       IN /\ r1.status = Returned
          /\ \A d2 \in TokenResponses \ {d1}, later \in {now, now + 1} :
                LET r2 == create_business_platform(r1.conns, r1.nextCid, later,
                                                   business, platform, d2,
                                                   type_of[platform])
                    rows == RowsOfPair(r2.conns, business, platform)
                IN /\ r2.status = Returned
                   /\ r2.obj = r1.obj
                   /\ Ids(rows) = r1.obj
                   /\ Cardinality(rows) = 1
                   /\ \A c \in rows :
                         /\ c.access_token = d2["access_token"]
                         /\ c.refresh_token = Get(d2, "refresh_token")
                         /\ c.expire_at = expire_at_of(later, d2)

\* A pair's row holds the tokens and expiry of the first response, and the
\* upsert of the second response returns that row with the second's tokens.
C7_Witness ==
    \E c \in conns :
       /\ c.access_token = "a1" /\ c.refresh_token = "r1" /\ c.expire_at # Null
       /\ LET r == create_business_platform(conns, nextCid, now, c.business,
                                            c.platform, [access_token |-> "a2"],
                                            c.platform_type)
          IN /\ r.obj = {c.id}
             /\ \E x \in r.conns :
                   /\ x.id = c.id
                   /\ x.access_token = "a2"
                   /\ x.refresh_token = None
                   /\ x.expire_at = Null

UpdatedInPlace(r, found) ==
    /\ r.status = Returned
    /\ r.nextCid = nextCid
    /\ r.obj = Ids(found)
    /\ Ids(r.conns) = Ids(conns)

CreatedNew(r) ==
    /\ r.status = Returned
    /\ r.nextCid = nextCid + 1
    /\ r.obj = {nextCid}
    /\ Ids(r.conns) = Ids(conns) \cup {nextCid}
    /\ conns \subseteq r.conns

\* C8: create_business_platform updates in place exactly when an
\* active connection exists for the pair, and creates a new record otherwise,
\* also when only deactivated connections exist.
C8_UpdatesIffActiveRow ==
    \A business \in Businesses, platform \in Platforms,
       response_data \in TokenResponses, platform_type \in PLATFORM_TYPE :
       LET r == create_business_platform(conns, nextCid, now, business,
                                         platform, response_data, platform_type)
           active == {c \in RowsOfPair(conns, business, platform) : c.is_active}
       IN IF active # {}
          THEN UpdatedInPlace(r, active)
          ELSE CreatedNew(r)

\* C9: once every concurrent create_business_platform call for one
\* (business, platform) has finished, the pair has exactly one row and that
\* row holds the tokens of the call that wrote last.
C9_ConcurrentUpsertsLeaveOneRow ==
    (/\ \A w \in Workers : pc[w] = "done"
     /\ \E c \in UNION {call[w] : w \in Workers} :
           \A w \in Workers : \A x \in call[w] :
              x.business = c.business /\ x.platform = c.platform)
    => \A w \in lastWriter : \A c \in call[w] :
          LET rows == RowsOfPair(conns, c.business, c.platform)
          IN /\ Cardinality(rows) = 1
             /\ \A x \in rows :
                   /\ x.access_token = c.response_data["access_token"]
                   /\ x.refresh_token = Get(c.response_data, "refresh_token")
                   /\ x.expire_at = c.expire

ExpiryAsStated(t, response_data) ==
    IF "expires_in" \in DOMAIN response_data
    THEN {t + response_data["expires_in"]}
    ELSE Null

\* C10: the expiry stored by create_business_platform and by
\* update_business_platform is the clock plus expires_in whenever the response
\* carries expires_in, zero included, and null exactly when it carries none.
C10_ExpiryIffExpiresInPresent ==
    /\ \A business \in Businesses, platform \in Platforms,
          response_data \in TokenResponses, platform_type \in PLATFORM_TYPE :
          LET r == create_business_platform(conns, nextCid, now, business,
                                            platform, response_data, platform_type)
          IN \A x \in r.conns :
                x.id \in r.obj => x.expire_at = ExpiryAsStated(now, response_data)
    /\ \A c \in conns, response_data \in TokenResponses :
          LET r == update_business_platform(conns, nextCid, now, c.id, response_data)
          IN \A x \in r.conns :
                x.id \in r.obj => x.expire_at = ExpiryAsStated(now, response_data)

Untouched(r) ==
    /\ r.conns = conns
    /\ r.nextCid = nextCid
    /\ r.obj = {}

\* C11: create_business_platform, and update_business_platform, called with
\* a token response that carries no access_token fail with the error raised
\* for the missing key and leave the ledger as it was: no row is created and
\* no row is updated.
C11_MissingAccessTokenRefused ==
    \A response_data \in MalformedResponses :
       /\ \A business \in Businesses \cup {NoBusiness}, platform \in Platforms,
             platform_type \in PLATFORM_TYPE :
             LET r == create_business_platform(conns, nextCid, now, business,
                                               platform, response_data, platform_type)
             IN r.status = KeyError /\ Untouched(r)
       /\ \A id \in ConnIds :
             LET r == update_business_platform(conns, nextCid, now, id, response_data)
             IN r.status = KeyError /\ Untouched(r)

\* A pair holds a connection, and both the upsert for that pair and the
\* update of that row are refused for a response without access_token.
C11_Witness ==
    \E c \in conns, response_data \in MalformedResponses :
       /\ create_business_platform(conns, nextCid, now, c.business, c.platform,
                                   response_data, c.platform_type).status = KeyError
       /\ update_business_platform(conns, nextCid, now, c.id,
                                   response_data).status = KeyError

(***************************************************************************)
(* Claims about registration, verification and login.                      *)
(***************************************************************************)
RowsOfToken(ts, token) == {v \in ts : v.token = token}
UserRow(us, email) == {u \in us : u.email = email}
Verified(us, email) == \E u \in UserRow(us, email) : u.is_verified
Live(v, t) == t <= v.created_at + TOKEN_LIFETIME
SameStore(r) ==
    /\ r.users = users
    /\ r.tokens = tokens
    /\ r.nextToken = nextToken

\* C12: redeeming one unexpired token twice in sequence for a user who is not
\* yet verified: the first verify_token answers success, sets the user
\* verified and active and deletes the token row; the second, at the same
\* hour or later, answers "Invalid token" and changes nothing.
C12_SecondRedemptionInvalid ==
    \A v \in tokens :
       (Live(v, now) /\ ~Verified(users, v.user)) =>
          LET r1 == verify_token(users, tokens, nextToken, now, v.token)
          IN /\ r1.status = Ok
             /\ r1.body = EmailVerifiedSuccessfully
             /\ \A u \in UserRow(r1.users, v.user) : u.is_verified /\ u.is_active
             /\ UserRow(r1.users, v.user) # {}
             /\ {u.email : u \in r1.users} = {u.email : u \in users}
             /\ r1.tokens = tokens \ {v}
             /\ \A later \in {now, now + 1, now + TOKEN_LIFETIME + 1} :
                   LET r2 == verify_token(r1.users, r1.tokens, r1.nextToken, later, v.token)
                   IN /\ r2.status = ValidationError
                      /\ r2.body = InvalidToken
                      /\ r2.users = r1.users
                      /\ r2.tokens = r1.tokens

\* An unverified user holds an unexpired token, beside a user who was
\* verified by a token that is gone.
C12_Witness ==
    /\ \E v \in tokens : Live(v, now) /\ ~Verified(users, v.user)
    /\ \E email \in redeemed :
          \E token \in 1..(nextToken - 1) :
             /\ RowsOfToken(tokens, token) = {}
             /\ verify_token(users, tokens, nextToken, now, token).body = InvalidToken

\* C13 as stated: every verify_token call that answers success deletes the
\* token it redeemed, so that no token string is redeemed with success
\* more than once.
C13_EverySuccessDeletesToken ==
    \A token \in TokenStrings :
       LET r == verify_token(users, tokens, nextToken, now, token)
       IN r.status = Ok =>
             /\ RowsOfToken(r.tokens, token) = {}
             /\ verify_token(r.users, r.tokens, r.nextToken, now, token).status # Ok

\* C13: a verify_token call that answers success deletes the token exactly
\* when it verified the user; the token of a user who was verified already is
\* kept, and redeeming it again answers success again.
C13_SuccessDeletesIffItVerifies ==
    \A token \in TokenStrings :
       LET r == verify_token(users, tokens, nextToken, now, token)
           again == verify_token(r.users, r.tokens, r.nextToken, now, token)
       IN r.status = Ok =>
             \A v \in RowsOfToken(tokens, token) :
                IF Verified(users, v.user)
                THEN /\ r.body = EmailAlreadyVerified
                     /\ RowsOfToken(r.tokens, token) = {v}
                     /\ again.status = Ok
                     /\ again.body = EmailAlreadyVerified
                ELSE /\ r.body = EmailVerifiedSuccessfully
                     /\ RowsOfToken(r.tokens, token) = {}
                     /\ again.status = ValidationError

\* A user verified by one token still holds another unexpired token, while
\* another unexpired token belongs to a user not yet verified.
C13_Witness ==
    /\ \E v \in tokens : Live(v, now) /\ v.user \in redeemed
    /\ \E v \in tokens : Live(v, now) /\ ~Verified(users, v.user)

\* C14: verify_token on a found, unexpired token whose user is already
\* verified answers success and changes nothing: the user rows and the whole
\* token table are the same before and after.
C14_AlreadyVerifiedNoMutation ==
    \A v \in tokens :
       (Live(v, now) /\ Verified(users, v.user)) =>
          LET r == verify_token(users, tokens, nextToken, now, v.token)
          IN /\ r.status = Ok
             /\ r.body = EmailAlreadyVerified
             /\ SameStore(r)

\* A verified user holds two unexpired tokens.
C14_Witness ==
    \E v \in tokens, w \in tokens :
       /\ v.token # w.token
       /\ v.user = w.user
       /\ Verified(users, v.user)
       /\ Live(v, now) /\ Live(w, now)

\* C15: a found token created at T is refused as expired exactly when the
\* clock is past T + 24 hours (valid up to and at T + 24, expired from the
\* next instant), and a refused expired redemption leaves the token row and
\* the user's flags as they were.
C15_ExpiredExactlyAfterLifetime ==
    \A v \in tokens :
       \A t \in {v.created_at + d : d \in {0, 1, 23, 24, 25, 26}} :
          LET r == verify_token(users, tokens, nextToken, t, v.token)
              expired == r.status = ValidationError /\ r.body = TokenHasExpired
          IN /\ expired <=> t > v.created_at + 24
             /\ expired => SameStore(r)
             /\ ~expired => r.status = Ok

\* The clock stands an hour past the lifetime of a token, which is refused
\* and kept; an hour earlier, at its last valid hour, it was accepted.
C15_Witness ==
    \E v \in tokens :
       /\ now = v.created_at + 25
       /\ verify_token(users, tokens, nextToken, now, v.token).body = TokenHasExpired
       /\ verify_token(users, tokens, nextToken, now - 1, v.token).status = Ok

\* C16: a user made by register_user is created inactive and unverified; for
\* every such user, login_user with the right password answers "Account not
\* activated" in every state before one of the user's tokens has been
\* redeemed, and answers with access and refresh tokens in every state after.
C16_LoginOnlyAfterRedemption ==
    /\ \A u \in users :
          LET r == login_user(users, tokens, nextToken, u.email, u.password)
          IN /\ SameStore(r)
             /\ IF u.email \in redeemed
                THEN r.status = Ok /\ r.body = AccessAndRefresh
                ELSE r.status = Unauthorized /\ r.body = AccountNotActivated
    /\ \A email \in Emails, password \in Passwords :
          UserRow(users, email) = {} =>
             LET r == register_user(users, tokens, nextToken, now, email,
                                    password, password, TRUE)
             IN /\ r.status = Created
                /\ UserRow(r.users, email) # {}
                /\ \A u \in UserRow(r.users, email) : ~u.is_active /\ ~u.is_verified

\* One registered user has redeemed a token and logs in; another has not and
\* is refused.
C16_Witness ==
    \E u \in users, w \in users :
       /\ u.email \in redeemed
       /\ w.email \notin redeemed
       /\ login_user(users, tokens, nextToken, u.email, u.password).status = Ok
       /\ login_user(users, tokens, nextToken, w.email, w.password).body = AccountNotActivated

\* C17: when the mail transport fails during register_user, the registration
\* answers an error and is rolled back: no user with that email exists
\* afterwards and no token issued for it remains, so the user table and the
\* token table equal their values before the call.
C17_FailedMailRollsBack ==
    \A email \in Emails, password \in Passwords :
       UserRow(users, email) = {} =>
          LET r == register_user(users, tokens, nextToken, now, email,
                                 password, password, FALSE)
          IN /\ r.status = ValidationError
             /\ r.body = FailedToSend
             /\ UserRow(r.users, email) = {}
             /\ \A v \in r.tokens : v.user # email
             /\ r.users = users
             /\ r.tokens = tokens

\* A token string was issued by a registration whose mail failed: neither
\* the token nor a user is left of it, while another user is registered.
C17_Witness ==
    /\ redeemed = {}
    /\ users # {}
    /\ \E token \in 1..(nextToken - 1) : RowsOfToken(tokens, token) = {}
    /\ \E email \in Emails : UserRow(users, email) = {}

\* C18: for any email, the response of resend_verification is the same
\* whether or not a user with that email is registered: the state as it is
\* and the state without that user and the user's tokens get responses that
\* cannot be told apart.
C18_ResendDoesNotRevealEmail ==
    \A email \in Emails, mailOk \in BOOLEAN :
       LET here == resend_verification(users, tokens, nextToken, now, email, mailOk)
           without == resend_verification({u \in users : u.email # email},
                                          {v \in tokens : v.user # email},
                                          nextToken, now, email, mailOk)
       IN /\ here.status = without.status
          /\ here.body = without.body

(***************************************************************************)
(* Further claims about the membership ledger.                             *)
(***************************************************************************)
MayManage(caller, o) ==
    /\ o \in DOMAIN orgs
    /\ orgs[o].is_active
    /\ RoleOf(memberships, caller, o) \in {OWNER, ADMIN}

RefusedLedgerSame(r) ==
    /\ r.status \in {ValidationError, IntegrityError}
    /\ r.memberships = memberships
    /\ r.nextMid = nextMid
    /\ r.orgs = orgs

\* C19: add_member for the owner of the organization with a role other than
\* OWNER (or with none, which defaults to MEMBER), asked by a caller who may
\* manage the organization, fails and leaves the membership ledger as it
\* was; the failure is the 400 of the serializer when the body names the
\* organization itself.
C19_OwnerNotAddedWithOtherRole ==
    \A o \in OrgIds, caller \in Users :
       MayManage(caller, o) =>
          \A role \in (Role \ {OWNER}) \cup {NoValue}, bodyOrg \in OrgIds \cup {NoOrg} :
             LET r == add_member(caller, o, orgs[o].owner, bodyOrg, role)
             IN /\ RefusedLedgerSame(r)
                /\ bodyOrg = o => r.status = ValidationError

\* An ADMIN of an active organization asks to add its owner as ADMIN and is
\* answered 400; the owner's row still says OWNER.
C19_Witness ==
    \E o \in DOMAIN orgs, a \in Users :
       /\ orgs[o].is_active
       /\ RoleOf(memberships, a, o) = ADMIN
       /\ add_member(a, o, orgs[o].owner, o, ADMIN).status = ValidationError
       /\ RoleOf(memberships, orgs[o].owner, o) = OWNER

\* C20: in every reachable state no (user, organization) pair has more than
\* one membership row; add_member for a pair that has a row, asked by a
\* caller who may manage the organization, fails on the uniqueness of the
\* pair and leaves the ledger, the role of the existing row included, as it
\* was.
C20_OneRowPerPair ==
    /\ \A m1 \in memberships, m2 \in memberships :
          (m1.user = m2.user /\ m1.organization = m2.organization) => m1 = m2
    /\ \A o \in OrgIds, caller \in Users :
          MayManage(caller, o) =>
             \A m \in memberships :
                m.organization = o =>
                   \A role \in Role \cup {NoValue}, bodyOrg \in OrgIds \cup {NoOrg} :
                      LET r == add_member(caller, o, m.user, bodyOrg, role)
                      IN /\ RefusedLedgerSame(r)
                         /\ m \in r.memberships
                         /\ bodyOrg = o => r.status = ValidationError

\* An organization has a MEMBER beside its owner; adding that user again as
\* ADMIN is refused and the row still says MEMBER.
C20_Witness ==
    \E o \in DOMAIN orgs, m \in memberships :
       /\ orgs[o].is_active
       /\ m.organization = o
       /\ m.role = MEMBER
       /\ m.user # orgs[o].owner
       /\ add_member(orgs[o].owner, o, m.user, o, ADMIN).status = ValidationError

\* C21: remove_member for a user id other than the owner's, asked by a caller
\* who may manage the organization: when the pair has no membership it
\* answers 404 and changes nothing; otherwise it deletes exactly the row of
\* the pair and leaves every other membership, of this and of the other
\* organizations, and the organizations as they were.
C21_RemoveDeletesExactlyOneRow ==
    \A o \in OrgIds, caller \in Users :
       MayManage(caller, o) =>
          \A user_id \in Users \ {orgs[o].owner} :
             LET r == remove_member(caller, o, user_id)
                 row == {m \in memberships : m.user = user_id /\ m.organization = o}
             IN /\ r.orgs = orgs
                /\ r.nextMid = nextMid
                /\ IF row = {}
                   THEN r.status = NotFound /\ r.memberships = memberships
                   ELSE /\ r.status = NoContent
                        /\ Cardinality(row) = 1
                        /\ r.memberships = memberships \ row

\* A user is a member of two organizations and not the owner of the first;
\* removing the user from the first is answered 204, while removing a user
\* without a row there is answered 404.
C21_Witness ==
    \E o \in DOMAIN orgs, p \in DOMAIN orgs, u \in Users, w \in Users :
       /\ o # p
       /\ orgs[o].is_active
       /\ u # orgs[o].owner
       /\ RoleOf(memberships, u, o) # NoValue
       /\ RoleOf(memberships, u, p) # NoValue
       /\ RoleOf(memberships, w, o) = NoValue
       /\ remove_member(orgs[o].owner, o, u).status = NoContent
       /\ remove_member(orgs[o].owner, o, w).status = NotFound

\* C28: every organization has exactly one membership of role OWNER, the one
\* of organization.owner; add_member never gives the role OWNER to a user
\* who is not the owner.
C28_OneOwnerRolePerOrganization ==
    \A o \in DOMAIN orgs :
       \A m \in memberships :
          (m.organization = o /\ m.role = OWNER) => m.user = orgs[o].owner

\* The ledger with the external entity of every row filled in, as the
\* platform callbacks leave it.
Named(cs) ==
    {[c EXCEPT !.external_id = "e1", !.external_name = "page one"] : c \in cs}

\* C29: an upsert or a token update that hits an existing connection changes
\* only its access token, refresh token and expiry (and, on upsert, its
\* platform type): is_active, reconnection, external id and external name,
\* its key, business and platform are as before, every other row is as
\* before and no row is added; a deactivated connection stays deactivated
\* with reconnection set.
C29_TokenWritesKeepTheRest ==
    \A cs \in {conns, Named(conns)} :
       \A c \in cs,
          response_data \in IF cs = conns THEN TokenResponses
                            ELSE {[access_token |-> "a2"]} :
          LET written == [c EXCEPT !.access_token = response_data["access_token"],
                                   !.refresh_token = Get(response_data, "refresh_token"),
                                   !.expire_at = expire_at_of(now, response_data)]
              updated == update_business_platform(cs, nextCid, now, c.id,
                                                  response_data)
          IN /\ updated.status = Returned
             /\ updated.nextCid = nextCid
             /\ updated.conns = (cs \ {c}) \cup {written}
             /\ \A platform_type \in PLATFORM_TYPE :
                   LET upserted == create_business_platform(cs, nextCid, now,
                                       c.business, c.platform, response_data,
                                       platform_type)
                   IN /\ upserted.status = Returned
                      /\ upserted.nextCid = nextCid
                      /\ upserted.conns =
                            (cs \ {c}) \cup
                            {[written EXCEPT !.platform_type = platform_type]}

\* A deactivated connection with reconnection set is hit by an upsert and by
\* a token update that bring another access token; both return it, still
\* deactivated.
C29_Witness ==
    \E c \in conns :
       /\ ~c.is_active /\ c.reconnection
       /\ c.access_token = "a1"
       /\ LET d == [access_token |-> "a2"]
              upserted == create_business_platform(conns, nextCid, now, c.business,
                                                   c.platform, d, c.platform_type)
              updated == update_business_platform(conns, nextCid, now, c.id, d)
          IN /\ upserted.obj = {c.id} /\ updated.obj = {c.id}
             /\ \E x \in upserted.conns :
                   x.id = c.id /\ x.access_token = "a2" /\ ~x.is_active
             /\ \E x \in updated.conns :
                   x.id = c.id /\ x.access_token = "a2" /\ x.reconnection

\* The caller is a member, of any role, of the stored organization.
IsMember(caller, o) ==
    o \in DOMAIN orgs /\ \E m \in memberships : m.user = caller /\ m.organization = o

\* The businesses stored under the organization with the slug.
BusinessesOfSlug(bs, o, slug) == {b \in bs : b.organization = o /\ b.slug = slug}

BusinessTableSame(r) == r.businesses = businesses /\ r.nextBid = nextBid

\* C22: business slugs are unique per organization only.  A create by a
\* member of an active organization fails with the 400 of the slug check and
\* stores nothing when a business of this organization, active or not, has
\* the slug; it succeeds and stores one new row when none has, whatever the
\* businesses of the other organizations are called; and no two stored
\* businesses of one organization share a slug.
C22_SlugUniquePerOrganization ==
    /\ \A caller \in Users, o \in OrgIds, name \in Names, slug \in Slugs :
          (IsMember(caller, o) /\ orgs[o].is_active) =>
             LET r == BusinessViewSet_create(caller, o, name, slug)
             IN IF BusinessesOfSlug(businesses, o, slug) # {}
                THEN r.status = ValidationError /\ BusinessTableSame(r)
                ELSE /\ r.status = Created
                     /\ r.nextBid = nextBid + 1
                     /\ r.businesses = businesses \cup
                           {[id |-> nextBid, organization |-> o, name |-> name,
                             slug |-> slug, is_active |-> TRUE]}
    /\ \A b \in businesses, c \in businesses :
          (b.organization = c.organization /\ b.slug = c.slug) => b = c

\* Two organizations each hold a business of the same slug, and a further
\* create with that slug is refused in the one and, in another state, was
\* accepted in the other.
C22_Witness ==
    \E b \in businesses, c \in businesses :
       /\ b.organization # c.organization
       /\ b.slug = c.slug
       /\ b.id < c.id
       /\ orgs[b.organization].is_active
       /\ \E caller \in Users :
             /\ IsMember(caller, b.organization)
             /\ BusinessViewSet_create(caller, b.organization, b.name, b.slug).status
                   = ValidationError

\* C23 as stated: a create by a caller who is not a member of the
\* organization is answered with a permission error and stores nothing; a
\* member of any role is let in.
C23_NonMemberGetsPermissionError ==
    \A caller \in Users, o \in DOMAIN orgs, name \in Names, slug \in Slugs :
       LET r == BusinessViewSet_create(caller, o, name, slug)
       IN IF IsMember(caller, o)
          THEN r.status \in {Created, ValidationError}
          ELSE r.status = PermissionDenied /\ BusinessTableSame(r)

\* C23: a create by a caller who is not a member of the organization, or
\* addressed to an organization that is not stored or is deactivated, is
\* answered 404 (not found) and stores nothing; a member of any role (OWNER,
\* ADMIN or MEMBER) of an active organization is let in: the create is
\* answered 201, or 400 when the slug is missing or taken.
C23_NonMemberGetsNotFound ==
    \A caller \in Users, o \in OrgIds \cup {NoOrg}, name \in Names,
       slug \in Slugs \cup {NoValue} :
       LET r == BusinessViewSet_create(caller, o, name, slug)
       IN IF IsMember(caller, o) /\ orgs[o].is_active
          THEN /\ r.status \in {Created, ValidationError}
               /\ r.status = Created <=>
                     (slug # NoValue /\ BusinessesOfSlug(businesses, o, slug) = {})
          ELSE r.status = NotFound /\ BusinessTableSame(r)

\* An active organization has an owner, a second member of role ADMIN or
\* MEMBER and a user outside it: the create of either member is answered
\* 201, the outsider's 404.
C23_Witness ==
    \E o \in DOMAIN orgs, u \in Users, v \in Users, slug \in Slugs :
       /\ orgs[o].is_active
       /\ RoleOf(memberships, u, o) \in {ADMIN, MEMBER}
       /\ ~IsMember(v, o)
       /\ BusinessViewSet_create(orgs[o].owner, o, "n1", slug).status = Created
       /\ BusinessViewSet_create(u, o, "n1", slug).status = Created
       /\ BusinessViewSet_create(v, o, "n1", slug).status = NotFound

\* The active businesses stored under the organization.
ActiveBusinessesOf(bs, o) == {b \in bs : b.organization = o /\ b.is_active}

\* C24: deactivating a business is a soft delete.  The destroy of an active
\* business by a member of its organization is answered 204 and sets the
\* active flag of that row to false: the row keeps its key and fields, every
\* other row is as before, no stored business ever disappears and every
\* integration still has its business.  The listing of an organization by a
\* member is exactly the set of its businesses whose active flag is true, in
\* every state: without the deactivated ones, with the restored ones.
C24_SoftDeleteAndListing ==
    /\ \A caller \in Users, o \in DOMAIN orgs :
          IsMember(caller, o) =>
             /\ LET listed == BusinessViewSet_list(caller, o)
                IN /\ listed.status = Ok
                   /\ listed.data = ActiveBusinessesOf(businesses, o)
                   /\ BusinessTableSame(listed)
             /\ \A b \in ActiveBusinessesOf(businesses, o) :
                   LET r == BusinessViewSet_destroy(caller, o, b.id)
                   IN /\ r.status = NoContent
                      /\ r.nextBid = nextBid
                      /\ r.businesses =
                            (businesses \ {b}) \cup {[b EXCEPT !.is_active = FALSE]}
    /\ {b.id : b \in businesses} = 1..(nextBid - 1)
    /\ \A i \in integrations :
          i.is_active /\ \E b \in businesses : b.id = i.business

\* An organization holds a deactivated business that has kept its
\* integration, and an active one: the owner's listing shows the active one
\* only.
C24_Witness ==
    \E b \in businesses, c \in businesses, i \in integrations :
       /\ b.organization = c.organization
       /\ ~b.is_active /\ c.is_active
       /\ i.business = b.id /\ i.is_active
       /\ BusinessViewSet_list(orgs[b.organization].owner, b.organization).data = {c}

\* C26: the destroy of an organization by an owner or admin of it sets its
\* active flag to false and nothing else: the row keeps its other fields,
\* the other organizations, every membership, every business, integration
\* and connection, with their active flags, are as before.
C26_DeactivateOrganizationFrame ==
    [][\A caller \in Users, o \in OrgIds :
          (MayManage(caller, o) /\ DestroyOrganization(caller, o)) =>
             /\ orgs' = [orgs EXCEPT ![o] = [@ EXCEPT !.is_active = FALSE]]
             /\ memberships' = memberships
             /\ businesses' = businesses
             /\ integrations' = integrations
             /\ conns' = conns]_vars

\* A deactivated organization whose owner's membership, active business,
\* active integration and active connection are all still stored.
C26_Witness ==
    \E o \in DOMAIN orgs, b \in businesses, i \in integrations, c \in conns :
       /\ ~orgs[o].is_active
       /\ RoleOf(memberships, orgs[o].owner, o) = OWNER
       /\ b.organization = o /\ b.is_active
       /\ i.business = b.id /\ i.is_active
       /\ c.is_active

\* The businesses stored under the organization.
BusinessesOf(bs, o) == {b \in bs : b.organization = o}

\* The response shows no business of an organization the user is outside of
\* and leaves the businesses of such an organization as they were.
Isolated(user, r) ==
    \A o \in DOMAIN orgs :
       ~IsMember(user, o) =>
          /\ BusinessesOf(r.data, o) = {}
          /\ BusinessesOf(r.businesses, o) = BusinessesOf(businesses, o)

\* C25: tenant isolation.  For a user without a membership in organization
\* O, in every reachable state: the list and the retrieve show no business
\* of O, whatever organization and key the request names; the create
\* addressed to O is answered 404 and stores nothing; no update and no
\* destroy changes a business of O or moves one into O; and the user's
\* organization listing does not contain O.
C25_TenantIsolation ==
    \A user \in Users :
       /\ \A o \in DOMAIN orgs : ~IsMember(user, o) => o \notin get_queryset(user)
       /\ \A org_id \in OrgIds :
             /\ Isolated(user, BusinessViewSet_list(user, org_id))
             /\ \A name \in Names, slug \in Slugs :
                   LET r == BusinessViewSet_create(user, org_id, name, slug)
                   IN /\ Isolated(user, r)
                      /\ ~IsMember(user, org_id) =>
                            r.status = NotFound /\ BusinessTableSame(r)
             /\ \A id \in BusinessIds :
                   /\ Isolated(user, BusinessViewSet_retrieve(user, org_id, id))
                   /\ Isolated(user, BusinessViewSet_destroy(user, org_id, id))
                   /\ ~IsMember(user, org_id) =>
                         /\ BusinessViewSet_retrieve(user, org_id, id).status = NotFound
                         /\ BusinessViewSet_destroy(user, org_id, id).status = NotFound
                   /\ \A bodyOrg \in OrgIds \cup {AbsentOrg}, name \in Names,
                         slug \in Slugs, is_active \in BOOLEAN :
                         LET r == BusinessViewSet_update(user, org_id, id,
                                     bodyOrg = AbsentOrg, bodyOrg, name, slug,
                                     is_active)
                         IN /\ Isolated(user, r)
                            /\ ~IsMember(user, org_id) => r.status = NotFound

\* A user outside an organization that holds an active business owns a
\* business in another one: the user's listing of the foreign organization
\* is empty, retrieve and destroy of the foreign business are answered 404,
\* and the update that would move the own business there is refused.
C25_Witness ==
    \E b \in businesses, c \in businesses, user \in Users :
       /\ b.is_active /\ c.is_active
       /\ ~IsMember(user, b.organization)
       /\ IsMember(user, c.organization)
       /\ BusinessViewSet_list(user, b.organization).data = {}
       /\ BusinessViewSet_retrieve(user, b.organization, b.id).status = NotFound
       /\ BusinessViewSet_destroy(user, b.organization, b.id).status = NotFound
       /\ BusinessViewSet_retrieve(user, c.organization, c.id).status = Ok
       /\ BusinessViewSet_update(user, c.organization, c.id, FALSE, b.organization,
                                 c.name, "s2", TRUE).status = ValidationError
       /\ BusinessesOfSlug(businesses, b.organization, "s2") = {}

\* Every request addressed to the organization by the caller is answered 404
\* and leaves the stored state as it was.
RejectedAsNotFound(caller, o) ==
    /\ retrieve(caller, o).status = NotFound
    /\ destroy(caller, o).status = NotFound
    /\ destroy(caller, o).orgs = orgs
    /\ \A name \in Names, slug \in Slugs, is_active \in BOOLEAN :
          LET r == update(caller, o, name, slug, is_active)
          IN r.status = NotFound /\ r.orgs = orgs /\ r.memberships = memberships
    /\ \A user \in Users, role \in Role \cup {NoValue} :
          LET r == add_member(caller, o, user, o, role)
          IN r.status = NotFound /\ r.orgs = orgs /\ r.memberships = memberships
    /\ \A user_id \in Users :
          LET r == remove_member(caller, o, user_id)
          IN r.status = NotFound /\ r.orgs = orgs /\ r.memberships = memberships
    /\ \A name \in Names, slug \in Slugs :
          LET r == BusinessViewSet_create(caller, o, name, slug)
          IN r.status = NotFound /\ BusinessTableSame(r)

\* C30: the deactivation of an organization is absorbing.  While the active
\* flag of an organization is false, every retrieve, update, add_member,
\* remove_member, destroy and business create addressed to it, by any
\* caller, is answered 404; and no step of the system changes its row (the
\* flag and the other fields) or its set of memberships.
C30_DeactivationIsAbsorbing ==
    /\ [](\A o \in DOMAIN orgs :
             ~orgs[o].is_active => \A caller \in Users : RejectedAsNotFound(caller, o))
    /\ [][\A o \in DOMAIN orgs :
             ~orgs[o].is_active =>
                /\ orgs'[o] = orgs[o]
                /\ {m \in memberships' : m.organization = o}
                      = {m \in memberships : m.organization = o}]_vars

\* A deactivated organization with two members, whose owner is answered 404
\* on update and on add_member, next to an active organization of the same
\* owner that still accepts the update.
C30_Witness ==
    \E o \in DOMAIN orgs, p \in DOMAIN orgs :
       /\ ~orgs[o].is_active
       /\ orgs[p].is_active
       /\ orgs[p].owner = orgs[o].owner
       /\ Cardinality({m \in memberships : m.organization = o}) = 2
       /\ update(orgs[o].owner, o, orgs[o].name, orgs[o].slug, TRUE).status = NotFound
       /\ add_member(orgs[o].owner, o, "u3", o, MEMBER).status = NotFound
       /\ update(orgs[p].owner, p, orgs[p].name, orgs[p].slug, TRUE).status = Ok

\* The membership rows of the owner in the organization.
OwnerRows(o) ==
    {m \in memberships : m.user = orgs[o].owner /\ m.organization = o}

\* C27: under every interleaving of concurrent runs of the owner-membership
\* receiver for one organization, the pair (owner, organization) has at most
\* one membership row in every reachable state, and exactly one whenever no
\* run for the organization is under way.
C27_ConcurrentReceiversLeaveOneRow ==
    \A o \in DOMAIN orgs :
       /\ Cardinality(OwnerRows(o)) <= 1
       /\ (\A w \in Workers : sig[w].org = o => sig[w].pc \notin {"get", "create"})
             => Cardinality(OwnerRows(o)) = 1

\* Two runs for one organization both missed at the get; one created the
\* row, the other met the unique constraint and read the row again.
C27_Witness ==
    \E o \in DOMAIN orgs, w \in Workers, x \in Workers :
       /\ sig[w] = Run("created", o)
       /\ sig[x] = Run("refetched", o)
       /\ Cardinality(OwnerRows(o)) = 1

====
